---- MODULE Spec2Model ----
(***************************************************************************)
(* Smart Hydration & Nutrition Advisor: the POST /calculate endpoint of    *)
(* src/main.py as a state machine.                                         *)
(*                                                                         *)
(* Each request slot walks through the steps of the endpoint:              *)
(*   idle --Receive--> validated | done(422)                               *)
(*   validated --Enter--> awaiting | done(500 configuration)               *)
(*   awaiting --Reply--> replied          (the awaited collaborator call)  *)
(*   replied --Resume--> done             (rest of the try block, return)  *)
(*   done --Send--> idle                                                   *)
(*                                                                         *)
(* Abstractions.  Weights are integers (the code multiplies a float).  The *)
(* text returned by the collaborator is represented by what json.loads     *)
(* makes of it: a decode error, or the decoded JSON value.  The prompt is  *)
(* the record of the values substituted into the template's slots.         *)
(***************************************************************************)
EXTENDS Integers, Sequences, FiniteSets, TLC

VARIABLES model, pc, profile, daily_water_ml, prompt, calls, outcome, resp

vars == <<model, pc, profile, daily_water_ml, prompt, calls, outcome, resp>>

(***************************************************************************)
(* Bounds                                                                  *)
(***************************************************************************)
NumRequests == 2
MaxLen == 3

Requests == 1 .. NumRequests

(***************************************************************************)
(* Process start (lines 14-24)                                             *)
(***************************************************************************)
None == "None"
GenerativeModel == "gemini-2.5-flash-lite"
ModelValues == {None, GenerativeModel}

\* `not model`
NotModelNever(m) == FALSE
NotModel(m) == m = None

(***************************************************************************)
(* Request schema (lines 40-46)                                            *)
(***************************************************************************)
DiseaseLiteral == {"diabetes", "bp", "thyroid", "pcos", "heart", "anemia", "none"}

\* Request bodies.  shapeOk is FALSE when a required field other than
\* disease is absent or of the wrong type.
Body(ds, ws) ==
    [age : {30}, weight : ws, activity_level : {"moderate"},
     dietary_preferences : {"vegetarian"}, disease : ds, gender : {"female"},
     shapeOk : BOOLEAN]

DiseaseInputs == DiseaseLiteral \cup {"asthma", "Diabetes"}
WeightInputs == {-2, 0, 70}
Bodies == Body(DiseaseInputs, WeightInputs)

DiseaseInputsConc == {"diabetes", "none", "asthma"}
WeightInputsConc == {-2, 0, 70}
BodiesConc == {b \in Body(DiseaseInputsConc, WeightInputsConc) : b.shapeOk}

\* pydantic validation of the body against UserProfile
UserProfileValidAnyDisease(b) == b.shapeOk
UserProfileValid(b) == b.shapeOk /\ b.disease \in DiseaseLiteral

(***************************************************************************)
(* Responses                                                               *)
(***************************************************************************)
NoResp == [status |-> 0]
HTTPException(code, detail) == [status |-> code, detail |-> detail]
RequestValidationError == HTTPException(422, "Unprocessable Entity")
InternalServerError == HTTPException(500, "Internal Server Error")

ConfigDetail == "Gemini API is not configured. Please set the GEMINI_API_KEY."
ParseDetail == "Failed to parse AI recommendations."
UpstreamPrefix == "Unexpected error from AI model: "

ConfigError == HTTPException(500, ConfigDetail)
ParseError == HTTPException(500, ParseDetail)
UpstreamError(e) == HTTPException(500, UpstreamPrefix \o e.msg)

(***************************************************************************)
(* Handler, up to the await (lines 64-103)                                 *)
(***************************************************************************)
WaterOfClamped(w) == IF w < 0 THEN 0 ELSE w * 35
WaterOf(w) == w * 35

FallbackPhrase == "a balanced diet"

disease_instructions_incomplete ==
    [d \in DiseaseLiteral \ {"anemia"} |->
        CASE d = "diabetes" -> "low sugar, low glycemic index meals"
          [] d = "bp"       -> "low sodium meals"
          [] d = "thyroid"  -> "meals that support thyroid function, considering iodine levels"
          [] d = "pcos"     -> "low carb, high-protein, insulin-friendly meals"
          [] d = "heart"    -> "low saturated fat and low cholesterol meals"
          [] d = "none"     -> "a balanced and healthy diet"]
disease_instructions ==
    [d \in DiseaseLiteral |->
        CASE d = "diabetes" -> "low sugar, low glycemic index meals"
          [] d = "bp"       -> "low sodium meals"
          [] d = "thyroid"  -> "meals that support thyroid function, considering iodine levels"
          [] d = "pcos"     -> "low carb, high-protein, insulin-friendly meals"
          [] d = "anemia"   -> "iron-rich meals"
          [] d = "heart"    -> "low saturated fat and low cholesterol meals"
          [] d = "none"     -> "a balanced and healthy diet"]

\* dict.get(key, default)
DictGet(d, k, default) == IF k \in DOMAIN d THEN d[k] ELSE default

disease_prompt_part(p) == DictGet(disease_instructions, p.disease, FallbackPhrase)

\* The f-string: the values substituted into the template, slot by slot.
NoPrompt == [rendered |-> FALSE]
RenderPrompt(p) ==
    [rendered |-> TRUE,
     age |-> p.age, weight |-> p.weight, activity_level |-> p.activity_level,
     gender |-> p.gender, food_preference |-> p.dietary_preferences,
     has |-> p.disease, must_follow |-> disease_prompt_part(p)]

(***************************************************************************)
(* Collaborator outcomes                                                   *)
(***************************************************************************)
Exc(type, msg) == [type |-> type, msg |-> msg]

\* What generate_content_async may raise.
CallExceptions ==
    { Exc("TimeoutError", "timed out"),
      Exc("ServiceUnavailable", "503 The model is overloaded."),
      Exc("KeyError", "'candidates'"),
      Exc("JSONDecodeError", "Expecting value: line 1 column 1 (char 0)") }

\* JSON values
JString(s) == [t |-> "str", s |-> s]
JNull == [t |-> "NoneType"]
JNumber(n) == [t |-> "int", n |-> n]
JArray(items) == [t |-> "list", items |-> items]
JObject(members) == [t |-> "dict", members |-> members]

SeqsUpTo(S, n) == UNION {[1 .. k -> S] : k \in 0 .. n}

Keys == {"recommended_meals", "reminders"}
OtherKeys == {"notes"}
Elems == {JString("a"), JString("b"), JNull}
MemberValues(n) == {JArray(s) : s \in SeqsUpTo(Elems, n)} \cup {JNumber(5), JNull}
\* Objects with any subset of the two expected keys, with or without a key
\* the handler does not look at.
WithOthers(f, E) == [k \in DOMAIN f \cup E |-> IF k \in DOMAIN f THEN f[k] ELSE JNull]
Members(n) ==
    {WithOthers(f, E) : f \in UNION {[K -> MemberValues(n)] : K \in SUBSET Keys},
                        E \in SUBSET OtherKeys}
Objects(n) == {JObject(f) : f \in Members(n)}
JsonValues(n) == Objects(n) \cup {JArray(<<>>), JNumber(5)}

\* Response text, by what json.loads makes of it.
NotJson == [valid |-> FALSE]
JsonText(v) == [valid |-> TRUE, value |-> v]
Texts(n) == {NotJson} \cup {JsonText(v) : v \in JsonValues(n)}

Raises(e) == [kind |-> "raise", exc |-> e]
Returns(text) == [kind |-> "text", text |-> text]
NoOutcome == [kind |-> "none"]

Outcomes == {Raises(e) : e \in CallExceptions} \cup {Returns(x) : x \in Texts(MaxLen)}

OutcomesConc ==
    { Raises(Exc("TimeoutError", "timed out")),
      Returns(NotJson),
      Returns(JsonText(JObject([k \in OtherKeys |-> JNull]))),
      Returns(JsonText(JObject([k \in Keys |->
          IF k = "reminders" THEN JArray(<<JString("b")>>)
                             ELSE JArray(<<JString("a")>>)]))),
      Returns(JsonText(JObject([k \in {"reminders"} |-> JNumber(5)]))) }

(***************************************************************************)
(* The try block (lines 105-115)                                           *)
(***************************************************************************)
Raised(e) == [raised |-> TRUE, exc |-> e]
Value(v) == [raised |-> FALSE, value |-> v]

json_loads(text) ==
    IF text.valid THEN Value(text.value)
    ELSE Raised(Exc("JSONDecodeError", "Expecting value: line 1 column 1 (char 0)"))

AttributeError(v) ==
    Exc("AttributeError", "'" \o v.t \o "' object has no attribute 'get'")

\* lines 106-109: the awaited call, json.loads and the two .get calls
TryBody(o) ==
    IF o.kind = "raise" THEN Raised(o.exc)
    ELSE LET ai_recommendations == json_loads(o.text) IN
         IF ai_recommendations.raised THEN ai_recommendations
         ELSE IF ai_recommendations.value.t # "dict"
              THEN Raised(AttributeError(ai_recommendations.value))
         ELSE LET d == ai_recommendations.value.members IN
              Value([recommended_meals |-> DictGet(d, "recommended_meals", JArray(<<>>)),
                     reminders |-> DictGet(d, "reminders", JArray(<<>>))])

\* line 110: except (json.JSONDecodeError, KeyError)
IsParseFailureWide(e) == e.type \in {"JSONDecodeError", "KeyError", "AttributeError"}
IsParseFailureNarrow(e) == e.type \in {"KeyError"}
IsParseFailure(e) == e.type \in {"JSONDecodeError", "KeyError"}

(***************************************************************************)
(* Response model (lines 48-51, 117-121)                                   *)
(***************************************************************************)
\* list[str]
IsListOfStr(v) == v.t = "list" /\ \A k \in 1 .. Len(v.items) : v.items[k].t = "str"
ListOfStr(v) == [k \in 1 .. Len(v.items) |-> v.items[k].s]

Recommendations(water, meals, reminders) ==
    IF IsListOfStr(meals) /\ IsListOfStr(reminders)
    THEN [status |-> 200,
          body |-> [daily_water_ml |-> water,
                    recommended_meals |-> ListOfStr(meals),
                    reminders |-> ListOfStr(reminders)]]
    ELSE InternalServerError

\* lines 105-121: what the handler answers once the awaited call is over
Finish(water, o) ==
    LET r == TryBody(o) IN
    IF r.raised
    THEN IF IsParseFailure(r.exc) THEN ParseError ELSE UpstreamError(r.exc)
    ELSE Recommendations(water, r.value.recommended_meals, r.value.reminders)

(***************************************************************************)
(* State machine                                                           *)
(***************************************************************************)
NoProfile == [unset |-> TRUE]

InitCommon ==
    /\ model \in ModelValues
    /\ profile = [i \in Requests |-> NoProfile]
    /\ daily_water_ml = [i \in Requests |-> 0]
    /\ prompt = [i \in Requests |-> NoPrompt]
    /\ calls = [i \in Requests |-> 0]
    /\ outcome = [i \in Requests |-> NoOutcome]
    /\ resp = [i \in Requests |-> NoResp]

\* One client connection: requests are handled one after another.
Init ==
    /\ InitCommon
    /\ pc = [i \in Requests |-> IF i = 1 THEN "idle" ELSE "closed"]

\* Every connection is open: requests are in flight together.
InitConc ==
    /\ InitCommon
    /\ pc = [i \in Requests |-> "idle"]

\* The framework reads the body and validates it against UserProfile.
Receive(i, bodies) ==
    /\ pc[i] = "idle"
    /\ \E b \in bodies :
        /\ profile' = [profile EXCEPT ![i] = b]
        /\ IF UserProfileValid(b)
           THEN /\ pc' = [pc EXCEPT ![i] = "validated"]
                /\ resp' = resp
           ELSE /\ pc' = [pc EXCEPT ![i] = "done"]
                /\ resp' = [resp EXCEPT ![i] = RequestValidationError]
    /\ UNCHANGED <<model, daily_water_ml, prompt, calls, outcome>>

\* lines 64-106: the handler runs up to the awaited call.
Enter(i) ==
    /\ pc[i] = "validated"
    /\ IF NotModel(model)
       THEN /\ pc' = [pc EXCEPT ![i] = "done"]
            /\ resp' = [resp EXCEPT ![i] = ConfigError]
            /\ UNCHANGED <<daily_water_ml, prompt, calls>>
       ELSE /\ daily_water_ml' = [daily_water_ml EXCEPT ![i] = WaterOf(profile[i].weight)]
            /\ prompt' = [prompt EXCEPT ![i] = RenderPrompt(profile[i])]
            /\ calls' = [calls EXCEPT ![i] = @ + 1]
            /\ pc' = [pc EXCEPT ![i] = "awaiting"]
            /\ resp' = resp
    /\ UNCHANGED <<model, profile, outcome>>

\* The collaborator call completes: it returns text or raises.
Reply(i, outcomes) ==
    /\ pc[i] = "awaiting"
    /\ \E o \in outcomes : outcome' = [outcome EXCEPT ![i] = o]
    /\ pc' = [pc EXCEPT ![i] = "replied"]
    /\ UNCHANGED <<model, profile, daily_water_ml, prompt, calls, resp>>

\* lines 106-121: the handler resumes and runs to its end.
ResumeAlone(i) ==
    /\ pc[i] = "replied"
    /\ \A j \in Requests \ {i} : pc[j] # "awaiting"
    /\ resp' = [resp EXCEPT ![i] = Finish(daily_water_ml[i], outcome[i])]
    /\ pc' = [pc EXCEPT ![i] = "done"]
    /\ UNCHANGED <<model, profile, daily_water_ml, prompt, calls, outcome>>
Resume(i) ==
    /\ pc[i] = "replied"
    /\ resp' = [resp EXCEPT ![i] = Finish(daily_water_ml[i], outcome[i])]
    /\ pc' = [pc EXCEPT ![i] = "done"]
    /\ UNCHANGED <<model, profile, daily_water_ml, prompt, calls, outcome>>

\* The response is sent; the handler's locals are gone.
Send(i) ==
    /\ pc[i] = "done"
    /\ pc' = [pc EXCEPT ![i] = "idle"]
    /\ profile' = [profile EXCEPT ![i] = NoProfile]
    /\ daily_water_ml' = [daily_water_ml EXCEPT ![i] = 0]
    /\ prompt' = [prompt EXCEPT ![i] = NoPrompt]
    /\ calls' = [calls EXCEPT ![i] = 0]
    /\ outcome' = [outcome EXCEPT ![i] = NoOutcome]
    /\ resp' = [resp EXCEPT ![i] = NoResp]
    /\ UNCHANGED model

Step(i, bodies, outcomes) ==
    \/ Receive(i, bodies)
    \/ Enter(i)
    \/ Reply(i, outcomes)
    \/ Resume(i)
    \/ Send(i)

Next == \E i \in Requests : Step(i, Bodies, Outcomes)
NextConc == \E i \in Requests : Step(i, BodiesConc, OutcomesConc)

Spec == Init /\ [][Next]_vars
SpecConc == InitConc /\ [][NextConc]_vars

TypeOK ==
    /\ model \in ModelValues
    /\ \A i \in Requests :
        /\ pc[i] \in {"closed", "idle", "validated", "awaiting", "replied", "done"}
        /\ calls[i] \in 0 .. 1

(***************************************************************************)
(* Properties                                                              *)
(***************************************************************************)
Done(i) == pc[i] = "done"
Received(i) == pc[i] \in {"validated", "awaiting", "replied", "done"}
ReturnedJson(i) == outcome[i].kind = "text" /\ outcome[i].text.valid
ReturnedObject(i) == ReturnedJson(i) /\ outcome[i].text.value.t = "dict"

\* C1: a request whose disease is outside the seven recognized values is
\* rejected with a client-error status before the handler body runs, and
\* no collaborator invocation is made for it.
C1_InvalidDiseaseRejected ==
    \A i \in Requests :
        (Received(i) /\ profile[i].disease \notin DiseaseLiteral) =>
            /\ Done(i)
            /\ resp[i].status \in 400 .. 499
            /\ calls[i] = 0
            /\ prompt[i] = NoPrompt
            /\ outcome[i] = NoOutcome

C1_Witness ==
    \E i \in Requests :
        /\ Done(i)
        /\ profile[i].shapeOk
        /\ profile[i].disease = "asthma"
        /\ model = GenerativeModel

\* C2 as stated: with no credential configured, every request, valid or
\* invalid, ends with the configuration error and no collaborator call.
C2_Original ==
    model = None =>
        \A i \in Requests : Done(i) => (resp[i] = ConfigError /\ calls[i] = 0)

\* C2 amended: with no credential configured, every request that passes
\* validation ends with the configuration error (500, fixed message) and
\* no collaborator call, never reaching the awaited call; a request that
\* fails validation is rejected with 422 instead.
C2_ConfigError ==
    model = None =>
        \A i \in Requests :
            /\ pc[i] \notin {"awaiting", "replied"}
            /\ calls[i] = 0
            /\ Done(i) =>
                   IF UserProfileValid(profile[i])
                   THEN resp[i].status = 500 /\ resp[i].detail = ConfigDetail
                   ELSE resp[i].status = 422

C2_Witness ==
    /\ model = None
    /\ \E i \in Requests :
        Done(i) /\ UserProfileValid(profile[i]) /\ resp[i] = ConfigError

\* The two expected keys are both absent from the decoded JSON value.
KeysAbsent(v) == v.t = "dict" => DOMAIN v.members \cap Keys = {}

\* C3 as stated: text that parses as JSON but lacks the two expected keys
\* ends in the parse-failure error, not in 200.
C3_Original ==
    \A i \in Requests :
        (Done(i) /\ ReturnedJson(i) /\ KeysAbsent(outcome[i].text.value)) =>
            resp[i] = ParseError

\* C3 amended: text that parses as JSON but lacks the two expected keys
\* never ends in the parse-failure error: a JSON object gives 200 with two
\* empty sequences and the computed water value, and a JSON value that is
\* not an object gives the upstream error (500) naming the missing `get`.
C3_AbsentKeysDefault ==
    \A i \in Requests :
        (Done(i) /\ ReturnedJson(i) /\ KeysAbsent(outcome[i].text.value)) =>
            /\ resp[i] # ParseError
            /\ IF outcome[i].text.value.t = "dict"
               THEN /\ resp[i].status = 200
                    /\ resp[i].body.recommended_meals = <<>>
                    /\ resp[i].body.reminders = <<>>
                    /\ resp[i].body.daily_water_ml = profile[i].weight * 35
               ELSE /\ resp[i].status = 500
                    /\ resp[i].detail \in
                         {UpstreamPrefix \o "'list' object has no attribute 'get'",
                          UpstreamPrefix \o "'int' object has no attribute 'get'"}

C3_Witness ==
    \E i \in Requests :
        /\ Done(i)
        /\ ReturnedObject(i)
        /\ DOMAIN outcome[i].text.value.members = OtherKeys
        /\ resp[i].status = 200

\* C4: text that is not valid JSON ends in the parse-failure error (500,
\* fixed message) and never in a 200 response.
C4_NotJsonParseFailure ==
    \A i \in Requests :
        (Done(i) /\ outcome[i].kind = "text" /\ ~outcome[i].text.valid) =>
            /\ resp[i].status = 500
            /\ resp[i].detail = ParseDetail

C4_Witness ==
    \E i \in Requests :
        Done(i) /\ outcome[i] = Returns(NotJson) /\ resp[i].status = 500

\* C5: the classifications are separated by stage: a collaborator call
\* that raises ends in the upstream error carrying the underlying reason,
\* and the parse-failure message is used only when the call returned text.
C5_SeparatedByStage ==
    \A i \in Requests :
        Done(i) =>
            /\ outcome[i].kind = "raise" =>
                   /\ resp[i].status = 500
                   /\ resp[i].detail = UpstreamPrefix \o outcome[i].exc.msg
            /\ resp[i] = ParseError => outcome[i].kind = "text"

\* C6: text that parses as a JSON object gives 200 with the two sequences
\* found under the expected keys, same elements in the same order, an
\* empty sequence for a missing key, and the computed water value.
Expected(i, k) ==
    LET d == outcome[i].text.value.members IN
    IF k \notin DOMAIN d THEN <<>>
    ELSE IF d[k].t # "list" THEN <<>>
    ELSE [n \in 1 .. Len(d[k].items) |->
             IF d[k].items[n].t = "str" THEN d[k].items[n].s ELSE "null"]

C6_ObjectGives200 ==
    \A i \in Requests :
        (Done(i) /\ ReturnedObject(i)) =>
            /\ resp[i].status = 200
            /\ resp[i].body.recommended_meals = Expected(i, "recommended_meals")
            /\ resp[i].body.reminders = Expected(i, "reminders")
            /\ resp[i].body.daily_water_ml = profile[i].weight * 35

\* C8: every validated request ends after at most one collaborator
\* invocation either in 200 with a full Recommendation or in 500 with one
\* of exactly three messages (configuration, parse failure, upstream).
UpstreamDetails ==
    {UpstreamPrefix \o e.msg : e \in CallExceptions}
        \cup {UpstreamPrefix \o "'list' object has no attribute 'get'",
              UpstreamPrefix \o "'int' object has no attribute 'get'"}

FullRecommendation(r) ==
    /\ r.status = 200
    /\ DOMAIN r.body = {"daily_water_ml", "recommended_meals", "reminders"}
    /\ r.body.daily_water_ml \in Int
    /\ r.body.recommended_meals \in Seq({"a", "b"})
    /\ r.body.reminders \in Seq({"a", "b"})

C8_ThreeMessages ==
    \A i \in Requests :
        /\ calls[i] <= 1
        /\ (Done(i) /\ UserProfileValid(profile[i])) =>
               \/ FullRecommendation(resp[i])
               \/ /\ resp[i].status = 500
                  /\ resp[i].detail \in {ConfigDetail, ParseDetail} \cup UpstreamDetails

\* C7: in every 200 response daily_water_ml is weight * 35 of the request's
\* own profile, unrounded and unclamped, and two requests with the same
\* profile get the same value whatever the collaborator returned to each.
C7_WaterIsWeightTimes35 ==
    \A i \in Requests :
        (Done(i) /\ resp[i].status = 200) =>
            /\ resp[i].body.daily_water_ml = profile[i].weight * 35
            /\ \A j \in Requests :
                   (Done(j) /\ resp[j].status = 200
                        /\ profile[j].weight = profile[i].weight) =>
                       resp[j].body.daily_water_ml = resp[i].body.daily_water_ml

C7_Witness ==
    \E i, j \in Requests :
        /\ i # j
        /\ Done(i) /\ resp[i].status = 200
        /\ Done(j) /\ resp[j].status = 200
        /\ profile[i].weight = -2
        /\ profile[j].weight = -2
        /\ profile[i].disease # profile[j].disease
        /\ outcome[i] # outcome[j]
        /\ resp[i].body.daily_water_ml = -70

\* C9: with several requests in flight, a request's response depends only
\* on its own profile and its own collaborator outcome; a request that is
\* not itself waiting for the collaborator can always take its next step,
\* whatever the other requests are doing; a step of one request changes
\* nothing that belongs to another request; and the model handle is never
\* modified.
NextStepEnabled(j) ==
    /\ pc[j] = "idle" => ENABLED Receive(j, BodiesConc)
    /\ pc[j] = "validated" => ENABLED Enter(j)
    /\ pc[j] = "replied" => ENABLED Resume(j)
    /\ pc[j] = "done" => ENABLED Send(j)

OwnInputsDecide ==
    \A i, j \in Requests :
        (Done(i) /\ Done(j) /\ profile[i] = profile[j] /\ outcome[i] = outcome[j]) =>
            resp[i] = resp[j]

Locals(i) == <<pc[i], profile[i], daily_water_ml[i], prompt[i], calls[i], outcome[i], resp[i]>>

OneRequestPerStep ==
    \A i, j \in Requests : (i # j /\ Locals(i)' # Locals(i)) => Locals(j)' = Locals(j)

C9_Independent ==
    /\ [](OwnInputsDecide /\ \A j \in Requests : NextStepEnabled(j))
    /\ [][OneRequestPerStep /\ model' = model]_vars

C9_Witness ==
    \E i, j \in Requests :
        /\ pc[i] = "awaiting"
        /\ Done(j)
        /\ resp[j].status = 200
        /\ profile[i] = profile[j]

\* C10: the prompt of a request that reached the handler carries, for its
\* disease, that disease's own phrase of the condition-instruction table;
\* the seven phrases are pairwise distinct; the fallback phrase is never
\* used.
C10_PromptPhrase ==
    /\ \A d1, d2 \in DOMAIN disease_instructions :
           d1 # d2 => disease_instructions[d1] # disease_instructions[d2]
    /\ \A i \in Requests :
           prompt[i].rendered =>
               /\ prompt[i].must_follow # FallbackPhrase
               /\ prompt[i].has = profile[i].disease
               /\ prompt[i].has \in DOMAIN disease_instructions
               /\ prompt[i].must_follow = disease_instructions[prompt[i].has]

C10_Witness ==
    \E i \in Requests :
        /\ pc[i] = "awaiting"
        /\ prompt[i].rendered
        /\ prompt[i].has = "none"
        /\ prompt[i].must_follow = "a balanced and healthy diet"
====
